---- MODULE Spec2Model ----
(***************************************************************************)
(* A model of ThreadPool (src/ThreadPool.hpp) over SageQueue               *)
(* (src/SafeQueue.hpp), driven as src/test.hpp drives it: one thread owns  *)
(* the pool and calls submit() and shutdown(), the worker threads run      *)
(* ThreadWorker::operator().  One action is one atomic step of one thread: *)
(* a read of the atomic flag, a mutex acquisition, a critical section of   *)
(* the queue, a condition-variable operation, the invocation of a task.    *)
(***************************************************************************)
EXTENDS Integers, Sequences, FiniteSets, TLC

\* ---- bounds of the model ------------------------------------------------
MaxThreads == 2          \* largest _n_threads given to the constructor
MaxTasks == 2            \* submit() calls made in one run
MaxShutdownCalls == 2    \* shutdown() calls made in one run

\* ---- identities -----------------------------------------------------------
NoOwner == -1            \* an unlocked std::mutex
MainThread == -2         \* the thread that owns the pool (TEST1::test)
NoTask == 0              \* an empty std::function / no handle held
Pending == -2            \* shared state of a future with no outcome yet
Failure == -1            \* shared state of a future holding an exception

Workers == 0..(MaxThreads - 1)       \* ThreadWorker::_id
ThreadCounts == (-1)..MaxThreads     \* values of _n_threads
Clients == {MainThread}
Threads == Workers \cup Clients
Tasks == 1..MaxTasks                 \* the task_ptr of each submit call
ArgValues == {0, 1}                  \* argument values given to submit

\* The callable f(args...) handed to submit: it returns a value or throws.
Callable(x) == IF x = 0 THEN Failure ELSE x + x

VARIABLES
    n_threads,   \* the constructor's _n_threads; _threads.size() when >= 0
    shutdown,    \* ThreadPool::_shutdown
    q,           \* SageQueue::_q, the task_ptr of each queued closure
    qmtx,        \* SageQueue::_mtx, its owner
    mtx,         \* ThreadPool::_mtx, its owner
    joinable,    \* _threads[i].joinable()
    wpc,         \* position of each worker in operator()
    func,        \* ThreadWorker::operator() local func
    cpc,         \* position of each client in submit() / shutdown()
    ctask,       \* the task_ptr / future a client holds
    joinIdx,     \* loop index i of shutdown()
    nextTask,    \* number of packaged_tasks created so far
    taskArg,     \* arguments bound into each packaged_task
    handle,      \* shared state of each packaged_task / future
    pushLog,     \* history: tasks in the order their push completed
    popLog,      \* history: <<worker, task>> in the order of pop()
    runs,        \* history: times each closure was invoked
    preSd,       \* history: tasks pushed before shutdown() was first called
    inQAtSd,     \* history: tasks in the queue when shutdown() was first called
    sdCalls,     \* history: shutdown() calls made
    sdReturns    \* history: shutdown() calls returned

vars == <<n_threads, shutdown, q, qmtx, mtx, joinable, wpc, func, cpc, ctask,
          joinIdx, nextTask, taskArg, handle, pushLog, popLog, runs,
          preSd, inQAtSd, sdCalls, sdReturns>>

shared == <<n_threads, shutdown, q, qmtx, mtx, joinable>>
wlocal == <<wpc, func>>
clocal == <<cpc, ctask, joinIdx>>
tasks  == <<nextTask, taskArg, handle>>
hist   == <<pushLog, popLog, runs, preSd, inQAtSd, sdCalls, sdReturns>>

Range(s) == {s[i] : i \in 1..Len(s)}

\* ThreadPool(_n_threads): _threads(_n_threads), _shutdown(false), and
\* _threads[i] = std::thread(ThreadWorker(this, i)) for every i.  A negative
\* _n_threads converts to a size above max_size(), the std::vector
\* constructor throws std::length_error and there is no pool to call; zero
\* gives a pool with an empty _threads.
Init ==
    /\ n_threads \in ThreadCounts
    /\ shutdown = FALSE
    /\ q = <<>>
    /\ qmtx = NoOwner
    /\ mtx = NoOwner
    /\ joinable = [w \in Workers |-> w < n_threads]
    /\ wpc = [w \in Workers |-> IF w < n_threads THEN "cond" ELSE "unused"]
    /\ func = [w \in Workers |-> NoTask]
    /\ cpc = [c \in Clients |-> IF n_threads >= 0 THEN "idle" ELSE "no_pool"]
    /\ ctask = [c \in Clients |-> NoTask]
    /\ joinIdx = 0
    /\ nextTask = 0
    /\ taskArg = [t \in Tasks |-> 0]
    /\ handle = [t \in Tasks |-> Pending]
    /\ pushLog = <<>>
    /\ popLog = <<>>
    /\ runs = [t \in Tasks |-> 0]
    /\ preSd = {}
    /\ inQAtSd = {}
    /\ sdCalls = 0
    /\ sdReturns = 0

\* ---- SageQueue ----------------------------------------------------------
\* Positions at which a thread is about to enter a member of SageQueue.
WorkerQueueOps == {"cond_empty", "wait_empty", "get_empty", "top", "pop"}

AtQueueOp(t) ==
    IF t \in Workers THEN wpc[t] \in WorkerQueueOps ELSE cpc[t] = "push"

\* std::unique_lock<std::mutex> lock(_mtx) at the head of every member.
QueueLock(t) ==
    /\ AtQueueOp(t)
    /\ qmtx = NoOwner
    /\ qmtx' = t
    /\ UNCHANGED <<n_threads, shutdown, q, mtx, joinable, wlocal, clocal, tasks, hist>>

\* _q.empty(), _q.front(), _q.pop(), _q.push(x) on the std::queue.
empty(s) == s = <<>>
top(s) == IF s = <<>> THEN NoTask ELSE Head(s)
pop(s) == IF s = <<>> THEN <<>> ELSE Tail(s)
\* Variant: the new element is put at the head (a stack, not a queue).
pushFront(s, x) == <<x>> \o s
push(s, x) == Append(s, x)

\* ---- ThreadWorker::operator() ---------------------------------------------
\* Variant: the loop is "while (not _shutdown)", the queue is not drained.
WorkerCondNoDrain(w) ==
    /\ wpc[w] = "cond"
    /\ wpc' = [wpc EXCEPT ![w] = IF ~shutdown THEN "lock" ELSE "exited"]
    /\ UNCHANGED <<shared, func, clocal, tasks, hist>>

\* while (not _shutdown ...): the first operand of the loop condition.
WorkerCond(w) ==
    /\ wpc[w] = "cond"
    /\ wpc' = [wpc EXCEPT ![w] = IF ~shutdown THEN "lock" ELSE "cond_empty"]
    /\ UNCHANGED <<shared, func, clocal, tasks, hist>>

\* while (... or not _tasks.empty()): the second operand; false ends the thread.
WorkerCondEmpty(w) ==
    /\ wpc[w] = "cond_empty"
    /\ qmtx = w
    /\ qmtx' = NoOwner
    /\ wpc' = [wpc EXCEPT ![w] = IF ~empty(q) THEN "lock" ELSE "exited"]
    /\ UNCHANGED <<n_threads, shutdown, q, mtx, joinable, func, clocal, tasks, hist>>

\* Variant: the loop body runs without taking the pool mutex.
WorkerLockNoMutex(w) ==
    /\ wpc[w] = "lock"
    /\ mtx' = w
    /\ wpc' = [wpc EXCEPT ![w] = "wait_empty"]
    /\ UNCHANGED <<n_threads, shutdown, q, qmtx, joinable, func, clocal, tasks, hist>>

\* std::unique_lock<std::mutex> lock(_pool->_mtx)
WorkerLock(w) ==
    /\ wpc[w] = "lock"
    /\ mtx = NoOwner
    /\ mtx' = w
    /\ wpc' = [wpc EXCEPT ![w] = "wait_empty"]
    /\ UNCHANGED <<n_threads, shutdown, q, qmtx, joinable, func, clocal, tasks, hist>>

\* if (_tasks.empty() and ...): the first operand.
WorkerWaitEmpty(w) ==
    /\ wpc[w] = "wait_empty"
    /\ qmtx = w
    /\ qmtx' = NoOwner
    /\ wpc' = [wpc EXCEPT ![w] = IF empty(q) THEN "wait_shutdown" ELSE "get_empty"]
    /\ UNCHANGED <<n_threads, shutdown, q, mtx, joinable, func, clocal, tasks, hist>>

\* if (... and not _shutdown): the second operand.
WorkerWaitShutdown(w) ==
    /\ wpc[w] = "wait_shutdown"
    /\ wpc' = [wpc EXCEPT ![w] = IF ~shutdown THEN "wait" ELSE "get_empty"]
    /\ UNCHANGED <<shared, func, clocal, tasks, hist>>

\* _tasks_empty.wait(lock): release the pool mutex and block, atomically.
WorkerWait(w) ==
    /\ wpc[w] = "wait"
    /\ mtx' = NoOwner
    /\ wpc' = [wpc EXCEPT ![w] = "waiting"]
    /\ UNCHANGED <<n_threads, shutdown, q, qmtx, joinable, func, clocal, tasks, hist>>

\* wait(lock) may return with no notification (a spurious wakeup).
WorkerSpurious(w) ==
    /\ wpc[w] = "waiting"
    /\ wpc' = [wpc EXCEPT ![w] = "wakeup"]
    /\ UNCHANGED <<shared, func, clocal, tasks, hist>>

\* wait(lock) re-acquires the pool mutex before it returns.
WorkerWakeup(w) ==
    /\ wpc[w] = "wakeup"
    /\ mtx = NoOwner
    /\ mtx' = w
    /\ wpc' = [wpc EXCEPT ![w] = "get_empty"]
    /\ UNCHANGED <<n_threads, shutdown, q, qmtx, joinable, func, clocal, tasks, hist>>

\* Variant: after the wait the worker takes a task without testing the queue.
WorkerGetEmptyNoTest(w) ==
    /\ wpc[w] = "get_empty"
    /\ qmtx = w
    /\ qmtx' = NoOwner
    /\ wpc' = [wpc EXCEPT ![w] = "top"]
    /\ UNCHANGED <<n_threads, shutdown, q, mtx, joinable, func, clocal, tasks, hist>>

\* if (_tasks.empty()) gotten = false; else { gotten = true; ...
\* gotten is a local written here on both branches and read only by
\* "if (gotten) func()" of the same iteration, so the position carries it:
\* with the queue empty the iteration ends without a call.
WorkerGetEmpty(w) ==
    /\ wpc[w] = "get_empty"
    /\ qmtx = w
    /\ qmtx' = NoOwner
    /\ wpc' = [wpc EXCEPT ![w] = IF empty(q) THEN "unlock" ELSE "top"]
    /\ UNCHANGED <<n_threads, shutdown, q, mtx, joinable, func, clocal, tasks, hist>>

\* func = std::move(_pool->_tasks.top())
WorkerTop(w) ==
    /\ wpc[w] = "top"
    /\ qmtx = w
    /\ qmtx' = NoOwner
    /\ func' = [func EXCEPT ![w] = top(q)]
    /\ wpc' = [wpc EXCEPT ![w] = "pop"]
    /\ UNCHANGED <<n_threads, shutdown, q, mtx, joinable, clocal, tasks, hist>>

\* _pool->_tasks.pop(); } if (gotten) func(): the closure is entered, with
\* lock still in scope.
WorkerPop(w) ==
    /\ wpc[w] = "pop"
    /\ qmtx = w
    /\ qmtx' = NoOwner
    /\ q' = pop(q)
    /\ popLog' = Append(popLog, <<w, top(q)>>)
    /\ wpc' = [wpc EXCEPT ![w] = "running"]
    /\ UNCHANGED <<n_threads, shutdown, mtx, joinable, func, clocal, tasks,
                   pushLog, runs, preSd, inQAtSd, sdCalls, sdReturns>>

\* Variant: the closure reads its arguments when it runs (captured by
\* reference), so it sees those of the latest submit call.
InvokeLatest(t) == Callable(taskArg[nextTask])

\* The outcome (*task_ptr)() stores: f called with the arguments bound by submit.
Invoke(t) == Callable(taskArg[t])

\* Variant: the closure calls f directly, an exception of f leaves func()
\* and ends the thread function.
WorkerFinishUncaught(w) ==
    /\ wpc[w] = "running"
    /\ func[w] # NoTask
    /\ runs' = [runs EXCEPT ![func[w]] = @ + 1]
    /\ IF Invoke(func[w]) # Failure
       THEN /\ handle' = [handle EXCEPT ![func[w]] = Invoke(func[w])]
            /\ wpc' = [wpc EXCEPT ![w] = "unlock"]
       ELSE /\ wpc' = [wpc EXCEPT ![w] = "terminated"]
            /\ UNCHANGED handle
    /\ UNCHANGED <<shared, func, clocal, nextTask, taskArg,
                   pushLog, popLog, preSd, inQAtSd, sdCalls, sdReturns>>

\* func() returns.  (*task_ptr)() of std::packaged_task stores the value or
\* the exception of f in the shared state; invoked on a state that holds an
\* outcome it throws future_error, and an empty std::function throws
\* bad_function_call: either leaves func() and ends the thread function.
WorkerFinish(w) ==
    /\ wpc[w] = "running"
    /\ IF func[w] # NoTask /\ handle[func[w]] = Pending
       THEN /\ handle' = [handle EXCEPT ![func[w]] = Invoke(func[w])]
            /\ wpc' = [wpc EXCEPT ![w] = "unlock"]
       ELSE /\ wpc' = [wpc EXCEPT ![w] = "terminated"]
            /\ UNCHANGED handle
    /\ runs' = IF func[w] # NoTask THEN [runs EXCEPT ![func[w]] = @ + 1] ELSE runs
    /\ UNCHANGED <<shared, func, clocal, nextTask, taskArg,
                   pushLog, popLog, preSd, inQAtSd, sdCalls, sdReturns>>

\* End of the loop body: lock goes out of scope and releases the pool mutex.
WorkerUnlock(w) ==
    /\ wpc[w] = "unlock"
    /\ mtx' = NoOwner
    /\ wpc' = [wpc EXCEPT ![w] = "cond"]
    /\ UNCHANGED <<n_threads, shutdown, q, qmtx, joinable, func, clocal, tasks, hist>>

\* ---- ThreadPool::submit ---------------------------------------------------
\* func = std::bind(f, args...); task_ptr = make_shared<packaged_task>(func)
ClientSubmit(c, x) ==
    /\ cpc[c] = "idle"
    /\ nextTask < MaxTasks
    /\ nextTask' = nextTask + 1
    /\ taskArg' = [taskArg EXCEPT ![nextTask + 1] = x]
    /\ ctask' = [ctask EXCEPT ![c] = nextTask + 1]
    /\ cpc' = [cpc EXCEPT ![c] = "push"]
    /\ UNCHANGED <<shared, wlocal, joinIdx, handle, hist>>

\* Variant: submit takes the pool mutex around the push.
ClientPushPoolLocked(c) ==
    /\ cpc[c] = "push"
    /\ qmtx = c
    /\ mtx = NoOwner
    /\ qmtx' = NoOwner
    /\ q' = push(q, ctask[c])
    /\ pushLog' = Append(pushLog, ctask[c])
    /\ cpc' = [cpc EXCEPT ![c] = "notify"]
    /\ UNCHANGED <<n_threads, shutdown, mtx, joinable, wlocal, ctask, joinIdx, tasks,
                   popLog, runs, preSd, inQAtSd, sdCalls, sdReturns>>

\* _tasks.push([task_ptr]() { (*task_ptr)(); })
ClientPush(c) ==
    /\ cpc[c] = "push"
    /\ qmtx = c
    /\ qmtx' = NoOwner
    /\ q' = push(q, ctask[c])
    /\ pushLog' = Append(pushLog, ctask[c])
    /\ cpc' = [cpc EXCEPT ![c] = "notify"]
    /\ UNCHANGED <<n_threads, shutdown, mtx, joinable, wlocal, ctask, joinIdx, tasks,
                   popLog, runs, preSd, inQAtSd, sdCalls, sdReturns>>

Waiting == {w \in Workers : wpc[w] = "waiting"}

\* _tasks_empty.notify_one(): unblocks one waiting thread, if there is one.
ClientNotifyOne(c) ==
    /\ cpc[c] = "notify"
    /\ cpc' = [cpc EXCEPT ![c] = "future"]
    /\ IF Waiting = {}
       THEN wpc' = wpc
       ELSE \E w \in Waiting : wpc' = [wpc EXCEPT ![w] = "wakeup"]
    /\ UNCHANGED <<shared, func, ctask, joinIdx, tasks, hist>>

\* return task_ptr->get_future()
ClientFuture(c) ==
    /\ cpc[c] = "future"
    /\ cpc' = [cpc EXCEPT ![c] = "idle"]
    /\ UNCHANGED <<shared, wlocal, ctask, joinIdx, tasks, hist>>

\* ---- the caller reads a future (f1.get(), c2.get()) -----------------------
ClientGet(c) ==
    /\ cpc[c] = "idle"
    /\ ctask[c] # NoTask
    /\ cpc' = [cpc EXCEPT ![c] = "get"]
    /\ UNCHANGED <<shared, wlocal, ctask, joinIdx, tasks, hist>>

\* get() blocks until the shared state holds an outcome.
ClientGetReturn(c) ==
    /\ cpc[c] = "get"
    /\ handle[ctask[c]] # Pending
    /\ cpc' = [cpc EXCEPT ![c] = "idle"]
    /\ ctask' = [ctask EXCEPT ![c] = NoTask]
    /\ UNCHANGED <<shared, wlocal, joinIdx, tasks, hist>>

\* ---- ThreadPool::shutdown -------------------------------------------------
\* _shutdown = true
ClientShutdown(c) ==
    /\ c = MainThread
    /\ cpc[c] = "idle"
    /\ sdCalls < MaxShutdownCalls
    /\ shutdown' = TRUE
    /\ sdCalls' = sdCalls + 1
    /\ preSd' = IF sdCalls = 0 THEN Range(pushLog) ELSE preSd
    /\ inQAtSd' = IF sdCalls = 0 THEN Range(q) ELSE inQAtSd
    /\ cpc' = [cpc EXCEPT ![c] = "notify_all"]
    /\ UNCHANGED <<n_threads, q, qmtx, mtx, joinable, wlocal, ctask, joinIdx, tasks,
                   pushLog, popLog, runs, sdReturns>>

\* _tasks_empty.notify_all(): unblocks every waiting thread.
ClientNotifyAll(c) ==
    /\ cpc[c] = "notify_all"
    /\ wpc' = [w \in Workers |-> IF wpc[w] = "waiting" THEN "wakeup" ELSE wpc[w]]
    /\ joinIdx' = 0
    /\ cpc' = [cpc EXCEPT ![c] = "join"]
    /\ UNCHANGED <<shared, func, ctask, tasks, hist>>

\* Variant: the thread is detached instead of joined.
ClientJoinNoWait(c) ==
    /\ cpc[c] = "join"
    /\ joinIdx < n_threads
    /\ joinable' = [joinable EXCEPT ![joinIdx] = FALSE]
    /\ joinIdx' = joinIdx + 1
    /\ UNCHANGED <<n_threads, shutdown, q, qmtx, mtx, wlocal, cpc, ctask, tasks, hist>>

\* Variant: _threads[i].join() with no joinable() test; join() on a thread
\* that is not joinable throws std::system_error out of shutdown().
ClientJoinUnchecked(c) ==
    /\ cpc[c] = "join"
    /\ joinIdx < n_threads
    /\ IF joinable[joinIdx]
       THEN /\ wpc[joinIdx] = "exited"
            /\ joinable' = [joinable EXCEPT ![joinIdx] = FALSE]
            /\ joinIdx' = joinIdx + 1
            /\ cpc' = cpc
       ELSE /\ joinable' = joinable
            /\ joinIdx' = joinIdx
            /\ cpc' = [cpc EXCEPT ![c] = "aborted"]
    /\ UNCHANGED <<n_threads, shutdown, q, qmtx, mtx, wlocal, ctask, tasks, hist>>

\* if (_threads[i].joinable()) _threads[i].join(): join blocks until the
\* thread function of thread i has returned.
ClientJoin(c) ==
    /\ cpc[c] = "join"
    /\ joinIdx < n_threads
    /\ IF joinable[joinIdx]
       THEN /\ wpc[joinIdx] = "exited"
            /\ joinable' = [joinable EXCEPT ![joinIdx] = FALSE]
       ELSE joinable' = joinable
    /\ joinIdx' = joinIdx + 1
    /\ UNCHANGED <<n_threads, shutdown, q, qmtx, mtx, wlocal, cpc, ctask, tasks, hist>>

\* i reached _threads.size(): shutdown() returns.
ClientShutdownReturn(c) ==
    /\ cpc[c] = "join"
    /\ joinIdx = n_threads
    /\ cpc' = [cpc EXCEPT ![c] = "idle"]
    /\ sdReturns' = sdReturns + 1
    /\ UNCHANGED <<shared, wlocal, ctask, joinIdx, tasks,
                   pushLog, popLog, runs, preSd, inQAtSd, sdCalls>>

\* ---- the pool goes out of scope -------------------------------------------
\* ThreadPool declares no destructor: the implicit one destroys _threads, and
\* ~thread() of a joinable std::thread calls std::terminate, which ends the
\* process and every thread in it.  With no joinable thread left the pool is
\* destroyed and nothing more is called on it.
ClientDestroy(c) ==
    /\ cpc[c] = "idle"
    /\ IF \E w \in Workers : joinable[w]
       THEN /\ cpc' = [cpc EXCEPT ![c] = "aborted"]
            /\ wpc' = [w \in Workers |-> IF w < n_threads THEN "killed" ELSE wpc[w]]
       ELSE /\ cpc' = [cpc EXCEPT ![c] = "destroyed"]
            /\ wpc' = wpc
    /\ UNCHANGED <<shared, func, ctask, joinIdx, tasks, hist>>

\* ---- the system -----------------------------------------------------------
Next ==
    \/ \E t \in Threads : QueueLock(t)
    \/ \E w \in Workers : WorkerCond(w)
    \/ \E w \in Workers : WorkerCondEmpty(w)
    \/ \E w \in Workers : WorkerLock(w)
    \/ \E w \in Workers : WorkerWaitEmpty(w)
    \/ \E w \in Workers : WorkerWaitShutdown(w)
    \/ \E w \in Workers : WorkerWait(w)
    \/ \E w \in Workers : WorkerSpurious(w)
    \/ \E w \in Workers : WorkerWakeup(w)
    \/ \E w \in Workers : WorkerGetEmpty(w)
    \/ \E w \in Workers : WorkerTop(w)
    \/ \E w \in Workers : WorkerPop(w)
    \/ \E w \in Workers : WorkerFinish(w)
    \/ \E w \in Workers : WorkerUnlock(w)
    \/ \E c \in Clients, x \in ArgValues : ClientSubmit(c, x)
    \/ \E c \in Clients : ClientPush(c)
    \/ \E c \in Clients : ClientNotifyOne(c)
    \/ \E c \in Clients : ClientFuture(c)
    \/ \E c \in Clients : ClientGet(c)
    \/ \E c \in Clients : ClientGetReturn(c)
    \/ \E c \in Clients : ClientShutdown(c)
    \/ \E c \in Clients : ClientNotifyAll(c)
    \/ \E c \in Clients : ClientJoin(c)
    \/ \E c \in Clients : ClientShutdownReturn(c)
    \/ \E c \in Clients : ClientDestroy(c)

Spec == Init /\ [][Next]_vars

\* ---- scheduling ----------------------------------------------------------
\* The steps a worker thread takes when it is scheduled.  A wait that returns
\* with no notification (WorkerSpurious) is allowed, never promised.
WorkerStep(w) ==
    \/ WorkerCond(w) \/ WorkerCondEmpty(w) \/ WorkerWaitEmpty(w)
    \/ WorkerWaitShutdown(w) \/ WorkerWait(w) \/ WorkerGetEmpty(w)
    \/ WorkerTop(w) \/ WorkerPop(w) \/ WorkerUnlock(w)

\* The steps left of a call a client has made.  Making a further call
\* (ClientSubmit, ClientGet, ClientShutdown) is the client's choice.
ClientStep(c) ==
    \/ ClientPush(c) \/ ClientNotifyOne(c) \/ ClientFuture(c)
    \/ ClientGetReturn(c) \/ ClientNotifyAll(c) \/ ClientJoin(c)
    \/ ClientShutdownReturn(c)

\* Every thread is scheduled again and again, and a thread that finds a mutex
\* free again and again gets it.  Tasks need not terminate.
Scheduling ==
    /\ \A w \in Workers : WF_vars(WorkerStep(w))
    /\ \A w \in Workers : SF_vars(WorkerLock(w) \/ WorkerWakeup(w))
    /\ \A t \in Threads : SF_vars(QueueLock(t))
    /\ \A c \in Clients : WF_vars(ClientStep(c))

\* Fair scheduling with tasks that terminate.
FairSpec == Spec /\ Scheduling /\ \A w \in Workers : WF_vars(WorkerFinish(w))

\* ---- claims --------------------------------------------------------------
Popped(t) == {i \in DOMAIN popLog : popLog[i][2] = t}
Done(t) == handle[t] # Pending

\* The pool has gone out of scope.
Destroyed == \E c \in Clients : cpc[c] \in {"destroyed", "aborted"}

\* C1: in a pool with at least one worker, under fair scheduling with
\* terminating tasks, a task whose push completed before shutdown was
\* requested is eventually executed and its handle becomes readable, with no
\* later submit() or shutdown() needed, for as long as the pool lives.
C1_SubmittedEventuallyDone ==
    \A t \in Tasks :
        []((n_threads >= 1 /\ t \in Range(pushLog) /\ ~shutdown)
              => <>(Done(t) \/ Destroyed))

\* C2: for a pool with a positive thread count, once shutdown() has returned,
\* every task enqueued before shutdown() was called has been executed exactly
\* once, holds an outcome and is not queued.
C2_NoLossOnShutdown ==
    (n_threads >= 1 /\ sdReturns >= 1) =>
        \A t \in preSd : runs[t] = 1 /\ Done(t) /\ t \notin Range(q)

\* C2 witness: shutdown() returned after being called with tasks still queued.
C2_Witness ==
    /\ n_threads >= 1
    /\ sdReturns >= 1
    /\ inQAtSd # {}
    /\ \A t \in inQAtSd : runs[t] = 1

\* C3: each enqueued task is delivered to at most one worker and executed at
\* most once.
C3_AtMostOnce ==
    \A t \in Tasks : Cardinality(Popped(t)) <= 1 /\ runs[t] <= 1

\* C3 witness: two workers have each dequeued and executed a task.
C3_Witness ==
    \E i, j \in DOMAIN popLog :
        /\ popLog[i][1] # popLog[j][1]
        /\ runs[popLog[i][2]] = 1
        /\ runs[popLog[j][2]] = 1

\* C4: under fair scheduling with terminating tasks, once shutdown() is
\* called every worker eventually exits and shutdown() eventually returns.
C4_ShutdownTerminates ==
    [](sdCalls >= 1 =>
        <>(sdReturns >= 1 /\ \A w \in Workers : w < n_threads => wpc[w] = "exited"))

\* C5: in every state where a shutdown() call has returned, every worker
\* thread has exited.
C5_ReturnedImpliesExited ==
    sdReturns >= 1 => \A w \in Workers : w < n_threads => wpc[w] = "exited"

\* C5 witness: shutdown() has returned for a pool whose workers ran tasks.
C5_Witness ==
    /\ sdReturns >= 1
    /\ popLog # <<>>
    /\ n_threads = MaxThreads

\* C6: tasks leave the queue in the order in which their pushes completed.
C6_FifoDequeue ==
    /\ Len(popLog) <= Len(pushLog)
    /\ \A i \in DOMAIN popLog : i <= Len(pushLog) => popLog[i][2] = pushLog[i]

\* C6 witness: a worker has just removed a task while a later one waits in line.
C6_Witness ==
    \E w \in Workers :
        /\ wpc[w] = "running"
        /\ q # <<>>
        /\ popLog[Len(popLog)] = <<w, func[w]>>

\* C7: no worker holds the pool lock while it is executing a task.
C7_RunsOutsideLock ==
    \A w \in Workers : wpc[w] = "running" => mtx # w

\* C8: a task whose callable fails has the failure as the outcome of its
\* handle, and no worker thread is terminated by it.
C8_FailureContained ==
    /\ \A w \in Workers : wpc[w] # "terminated"
    /\ \A t \in Tasks :
          (runs[t] >= 1 /\ Callable(taskArg[t]) = Failure) => handle[t] = Failure

\* C8 witness: a worker ran a failing task and afterwards ran another task.
C8_Witness ==
    \E i, j \in DOMAIN popLog :
        /\ i < j
        /\ popLog[i][1] = popLog[j][1]
        /\ handle[popLog[i][2]] = Failure
        /\ Done(popLog[j][2])

\* C9: a handle's outcome is that of the callable applied to the arguments of
\* the submit call that created it, and once written it never changes.
C9_HandleOneToOne ==
    /\ [](\A t \in Tasks : Done(t) => handle[t] = Callable(taskArg[t]))
    /\ [][\A t \in Tasks :
            /\ Done(t) => handle'[t] = handle[t]
            /\ t <= nextTask => taskArg'[t] = taskArg[t]]_vars

\* C9 witness: two handles hold different outcomes, written out of turn by
\* different workers.
C9_Witness ==
    \E i, j \in DOMAIN popLog :
        /\ popLog[i][1] # popLog[j][1]
        /\ Done(popLog[i][2]) /\ Done(popLog[j][2])
        /\ handle[popLog[i][2]] # handle[popLog[j][2]]

\* The steps of submit() after its first, and the critical sections of the
\* queue a worker may be in.
SubmitStep(c) ==
    QueueLock(c) \/ ClientPush(c) \/ ClientNotifyOne(c) \/ ClientFuture(c)

WorkerQueueStep(w) ==
    \/ WorkerCondEmpty(w) \/ WorkerWaitEmpty(w) \/ WorkerGetEmpty(w)
    \/ WorkerTop(w) \/ WorkerPop(w)

\* C10: a client inside submit() can always take its next step, or waits only
\* for a worker that is inside one critical section of the queue and can
\* leave it; it never waits for the pool lock or for a task to finish.
C10_SubmitNeverBlocks ==
    \A c \in Clients :
        cpc[c] \in {"push", "notify", "future"} =>
            \/ ENABLED SubmitStep(c)
            \/ qmtx \in Workers /\ ENABLED WorkerQueueStep(qmtx)

\* C10 witness: submit() is inside its push while a worker that holds the
\* pool lock is executing a task.
C10_Witness ==
    \E c \in Clients, w \in Workers :
        /\ cpc[c] = "push" /\ qmtx = c
        /\ wpc[w] = "running" /\ mtx = w

\* Tasks whose push completed after shutdown() was first called.
PostSd == IF sdCalls >= 1 THEN Range(pushLog) \ preSd ELSE {}

AllExited == \A w \in Workers : w < n_threads => wpc[w] = "exited"

\* C11: a task accepted after shutdown was requested is executed: in a pool
\* with workers, once every worker has exited no such task is left
\* unexecuted with a handle that can never become readable.
C11_PostShutdownSubmitRuns ==
    (n_threads >= 1 /\ AllExited) => \A t \in PostSd : Done(t)

\* C12: construction with a non-positive thread count yields no usable pool:
\* no pool built with a count of zero or less ever accepts a task.
C12_NonPositiveRejected ==
    n_threads <= 0 => (nextTask = 0 /\ pushLog = <<>>)

\* C13: the pool is never destroyed while a worker thread is still waiting or
\* running: no teardown aborts the program.
C13_TeardownGuarded ==
    \A c \in Clients : cpc[c] # "aborted"

\* C14: a worker never begins to block on the condition variable at a moment
\* when the queue is non-empty or shutdown is requested.
C14_NoLostWakeup ==
    [][\A w \in Workers :
          (wpc[w] = "wait" /\ wpc'[w] = "waiting") => (empty(q) /\ ~shutdown)]_vars

\* Positions from which a worker's next step reads or writes the queue or
\* the shutdown flag.
WorkerAccessPcs ==
    {"cond", "cond_empty", "wait_empty", "wait_shutdown", "get_empty", "top", "pop"}

\* C15: every access to the queue and to the shutdown flag is made by a
\* thread that holds the pool lock: the worker's reads of the flag and its
\* queue operations, the push of submit, the flag write of shutdown.
C15_AccessUnderPoolLock ==
    [][/\ \A w \in Workers :
            (wpc[w] \in WorkerAccessPcs /\ wpc'[w] # wpc[w] /\ wpc'[w] # "killed")
                => mtx = w
       /\ \A c \in Clients :
            (cpc[c] = "push" /\ cpc'[c] = "notify") => mtx = c
       /\ \A c \in Clients :
            (cpc[c] = "idle" /\ cpc'[c] = "notify_all") => mtx = c]_vars

\* C16: a worker exits only in a step in which it holds the pool lock, with
\* shutdown requested and the queue empty.
C16_ExitUnderLock ==
    [][\A w \in Workers :
          (wpc[w] # "exited" /\ wpc'[w] = "exited")
              => (mtx = w /\ shutdown /\ empty(q))]_vars

\* The part of C16 that does not mention the lock.
C16_ExitOnlyWhenDrained ==
    [][\A w \in Workers :
          (wpc[w] # "exited" /\ wpc'[w] = "exited") => (shutdown /\ empty(q))]_vars

\* The position that follows p in the loop of a worker that finds the queue
\* empty and shutdown not requested: from the return of the wait back to it.
IdleSuccessor(p) ==
    CASE p = "wakeup" -> "get_empty"
      [] p = "get_empty" -> "unlock"
      [] p = "unlock" -> "cond"
      [] p = "cond" -> "lock"
      [] p = "lock" -> "wait_empty"
      [] p = "wait_empty" -> "wait_shutdown"
      [] p = "wait_shutdown" -> "wait"
      [] p = "wait" -> "waiting"

IdlePcs ==
    {"wakeup", "get_empty", "unlock", "cond", "lock", "wait_empty",
     "wait_shutdown", "wait"}

\* C17: a worker that has returned from the wait and takes a step while the
\* queue is empty and shutdown is not requested runs no task, calls neither
\* top nor pop, does not exit, and moves one position along the path that
\* re-checks the predicate and leads back to the wait.
C17_SpuriousWakeupHarmless ==
    [][\A w \in Workers :
          (/\ empty(q) /\ ~shutdown
           /\ wpc[w] \in IdlePcs
           /\ wpc'[w] # wpc[w]
           /\ wpc'[w] # "killed")
              => /\ wpc'[w] = IdleSuccessor(wpc[w])
                 /\ func'[w] = func[w]
                 /\ q' = q /\ popLog' = popLog /\ runs' = runs]_vars

\* C17 witness: with no submit and no shutdown ever made, a worker has
\* returned from the wait, found the queue empty and ended the iteration
\* without a task.
C17_Witness ==
    \E w \in Workers :
        /\ wpc[w] = "unlock"
        /\ nextTask = 0 /\ sdCalls = 0
        /\ empty(q) /\ ~shutdown

\* C18: top() and pop() are never called on an empty queue, and when a worker
\* is about to call pop() the head of the queue is still the task it read
\* with top().
C18_TopPopSameTask ==
    \A w \in Workers :
        /\ wpc[w] = "top" => ~empty(q)
        /\ wpc[w] = "pop" => (~empty(q) /\ Head(q) = func[w])

\* C18 witness: a worker is between top() and pop() and a submit has just
\* pushed another task behind the one it read.
C18_Witness ==
    \E w \in Workers, c \in Clients :
        /\ wpc[w] = "pop"
        /\ cpc[c] = "notify"
        /\ Len(q) >= 2
        /\ q[Len(q)] = ctask[c]
        /\ Head(q) = func[w]

\* Client c is inside a shutdown() call made after an earlier one returned.
LaterShutdown(c) == sdReturns >= 1 /\ cpc[c] \in {"notify_all", "join"}

\* C19: a shutdown() call made after an earlier shutdown() has returned can
\* always take its next step up to its return, and none of its steps changes
\* the shutdown flag, the queue contents or any worker's state; every worker
\* is and stays exited.
C19_SecondShutdownNoOp ==
    /\ [](\A c \in Clients :
            LaterShutdown(c) =>
                ENABLED (ClientNotifyAll(c) \/ ClientJoin(c) \/ ClientShutdownReturn(c)))
    /\ [][\A c \in Clients :
            (LaterShutdown(c) \/ (sdReturns >= 1 /\ cpc[c] = "idle" /\ cpc'[c] = "notify_all")) =>
                /\ cpc'[c] \in {"notify_all", "join", "idle"}
                /\ shutdown /\ shutdown' = shutdown
                /\ q' = q
                /\ wpc' = wpc
                /\ \A w \in Workers : w < n_threads => wpc[w] = "exited"]_vars

\* C19 witness: a second shutdown() has returned in a pool with workers whose
\* queue still holds a task.
C19_Witness ==
    /\ n_threads >= 1
    /\ sdCalls = 2 /\ sdReturns = 2
    /\ q # <<>>

====
